---- MODULE Spec2Model ----
(***************************************************************************)
(* The ETL pipeline of populate_cloud.py: six stages that parse one        *)
(* tab-separated file into Region, Country, Customer, ProductCategory,     *)
(* Product and OrderDetail and load them into a Postgres store over one    *)
(* psycopg2 connection.                                                    *)
(*                                                                         *)
(* A Python str is a sequence of one-character strings, so that strip,     *)
(* split, int, float and strptime are computed character by character.     *)
(***************************************************************************)
EXTENDS Integers, Sequences, FiniteSets, TLC

(***************************************************************************)
(* Characters and str methods                                              *)
(***************************************************************************)

\* ord(c): the code point Python compares by, for the characters the inputs use.
Ord(c) ==
    CASE c = "\t" -> 9   [] c = " " -> 32  [] c = "-" -> 45  [] c = "." -> 46
      [] c = "0" -> 48   [] c = "1" -> 49  [] c = "2" -> 50  [] c = "3" -> 51
      [] c = "4" -> 52   [] c = "5" -> 53  [] c = "6" -> 54  [] c = "7" -> 55
      [] c = "8" -> 56   [] c = "9" -> 57  [] c = ";" -> 59
      [] c = "A" -> 65   [] c = "B" -> 66  [] c = "C" -> 67  [] c = "D" -> 68
      [] c = "E" -> 69   [] c = "J" -> 74  [] c = "K" -> 75  [] c = "N" -> 78
      [] c = "S" -> 83   [] c = "U" -> 85
      [] c = "a" -> 97   [] c = "e" -> 101 [] c = "f" -> 102 [] c = "h" -> 104
      [] c = "i" -> 105  [] c = "n" -> 110 [] c = "o" -> 111 [] c = "s" -> 115
      [] c = "u" -> 117  [] c = "x" -> 120 [] c = "y" -> 121

\* str.isspace for one character: what str.strip() with no argument removes.
IsSpace(c) == c \in {" ", "\t"}

IsDigit(c) == c \in {"0", "1", "2", "3", "4", "5", "6", "7", "8", "9"}

DigitVal(c) == Ord(c) - 48

DigitChar(n) == CHOOSE c \in {"0", "1", "2", "3", "4", "5", "6", "7", "8", "9"} : DigitVal(c) = n

RECURSIVE LStrip(_)
LStrip(s) == IF s # <<>> /\ IsSpace(Head(s)) THEN LStrip(Tail(s)) ELSE s

RECURSIVE RStrip(_)
RStrip(s) ==
    IF s # <<>> /\ IsSpace(s[Len(s)]) THEN RStrip(SubSeq(s, 1, Len(s) - 1)) ELSE s

\* s.strip()
Strip(s) == RStrip(LStrip(s))

\* the index of the first sep in s, 0 when there is none
RECURSIVE FindFrom(_, _, _)
FindFrom(s, sep, i) ==
    IF i > Len(s) THEN 0 ELSE IF s[i] = sep THEN i ELSE FindFrom(s, sep, i + 1)

\* s.split(sep): always at least one piece, empty pieces kept
RECURSIVE Split(_, _)
Split(s, sep) ==
    LET i == FindFrom(s, sep, 1)
    IN  IF i = 0 THEN <<s>>
        ELSE <<SubSeq(s, 1, i - 1)>> \o Split(SubSeq(s, i + 1, Len(s)), sep)

\* [x.strip() for x in field.split(";")]
SplitList(field) ==
    LET parts == Split(field, ";")
    IN  [i \in 1..Len(parts) |-> Strip(parts[i])]

\* a < b for two str: lexicographic by code point
RECURSIVE StrLess(_, _)
StrLess(a, b) ==
    IF b = <<>> THEN FALSE
    ELSE IF a = <<>> THEN TRUE
    ELSE IF Head(a) # Head(b) THEN Ord(Head(a)) < Ord(Head(b))
    ELSE StrLess(Tail(a), Tail(b))

\* k1 < k2 for two tuples of str, as Python compares tuples
RECURSIVE KeyLess(_, _)
KeyLess(k1, k2) ==
    IF k2 = <<>> THEN FALSE
    ELSE IF k1 = <<>> THEN TRUE
    ELSE IF Head(k1) # Head(k2) THEN StrLess(Head(k1), Head(k2))
    ELSE KeyLess(Tail(k1), Tail(k2))

\* list.sort / sorted with a key: stable, ascending. items are [key, val] records.
RECURSIVE InsertSorted(_, _)
InsertSorted(sorted, x) ==
    IF sorted = <<>> THEN <<x>>
    ELSE IF KeyLess(x.key, Head(sorted).key) THEN <<x>> \o sorted
    ELSE <<Head(sorted)>> \o InsertSorted(Tail(sorted), x)

RECURSIVE SortAsc(_)
SortAsc(items) ==
    IF items = <<>> THEN <<>>
    ELSE InsertSorted(SortAsc(SubSeq(items, 1, Len(items) - 1)), items[Len(items)])

\* sorted(..., reverse=True): the same sort, descending
RECURSIVE SortDesc(_)
SortDesc(items) ==
    IF items = <<>> THEN <<>>
    ELSE LET asc == SortAsc(items) IN <<asc[Len(asc)]>> \o SortDesc(SubSeq(asc, 1, Len(asc) - 1))

\* the sort every stage numbers by
SortedItems(items) == SortAsc(items)

(***************************************************************************)
(* int(), float() and strptime/strftime                                    *)
(***************************************************************************)

NoValue == [ok |-> FALSE]

RECURSIVE DigitsVal(_)
DigitsVal(s) == IF s = <<>> THEN 0 ELSE 10 * DigitsVal(SubSeq(s, 1, Len(s) - 1)) + DigitVal(s[Len(s)])

AllDigits(s) == \A i \in 1..Len(s) : IsDigit(s[i])

\* int(s) for s over digits, sign and letters: an optional sign, then digits
ParseInt(s) ==
    LET signed == s # <<>> /\ Head(s) \in {"+", "-"}
        body   == IF signed THEN Tail(s) ELSE s
    IN  IF body = <<>> \/ ~AllDigits(body) THEN NoValue
        ELSE [ok |-> TRUE,
              val |-> IF signed /\ Head(s) = "-" THEN 0 - DigitsVal(body) ELSE DigitsVal(body)]

\* a decimal m / 10^e with trailing zeros of the fraction removed
RECURSIVE Normalize(_, _)
Normalize(m, e) == IF e > 0 /\ m % 10 = 0 THEN Normalize(m \div 10, e - 1) ELSE [m |-> m, e |-> e]

\* float(s) for s over digits, "." and letters other than e, n, i: digits with at
\* most one ".", at least one digit. The value is the decimal itself.
ParseFloat(s) ==
    LET dot  == FindFrom(s, ".", 1)
        ip   == IF dot = 0 THEN s ELSE SubSeq(s, 1, dot - 1)
        fp   == IF dot = 0 THEN <<>> ELSE SubSeq(s, dot + 1, Len(s))
    IN  IF ~AllDigits(ip) \/ ~AllDigits(fp) \/ (ip = <<>> /\ fp = <<>>) THEN NoValue
        ELSE [ok |-> TRUE, val |-> Normalize(DigitsVal(ip \o fp), Len(fp))]

RECURSIVE IntToStr(_)
IntToStr(n) == IF n < 10 THEN <<DigitChar(n)>> ELSE IntToStr(n \div 10) \o <<DigitChar(n % 10)>>

\* "%m" and "%d" of strftime: two digits, zero padded
TwoDigits(n) == <<DigitChar(n \div 10), DigitChar(n % 10)>>

\* s[i] exists and is in the set cs
At(s, i, cs) == i <= Len(s) /\ s[i] \in cs

\* The lengths of the alternatives of strptime's "%m" group, 1[0-2]|0[1-9]|[1-9],
\* that match at the start of r, in the order the regex tries them.
MonthAlts(r) ==
    (IF At(r, 1, {"1"}) /\ At(r, 2, {"0", "1", "2"}) THEN <<2>> ELSE <<>>)
    \o (IF At(r, 1, {"0"}) /\ At(r, 2, {"1", "2", "3", "4", "5", "6", "7", "8", "9"}) THEN <<2>> ELSE <<>>)
    \o (IF At(r, 1, {"1", "2", "3", "4", "5", "6", "7", "8", "9"}) THEN <<1>> ELSE <<>>)

\* The same for the "%d" group, 3[0-1]|[1-2]\d|0[1-9]|[1-9]| [1-9].
DayAlts(r) ==
    (IF At(r, 1, {"3"}) /\ At(r, 2, {"0", "1"}) THEN <<2>> ELSE <<>>)
    \o (IF At(r, 1, {"1", "2"}) /\ At(r, 2, {"0", "1", "2", "3", "4", "5", "6", "7", "8", "9"}) THEN <<2>> ELSE <<>>)
    \o (IF At(r, 1, {"0"}) /\ At(r, 2, {"1", "2", "3", "4", "5", "6", "7", "8", "9"}) THEN <<2>> ELSE <<>>)
    \o (IF At(r, 1, {"1", "2", "3", "4", "5", "6", "7", "8", "9"}) THEN <<1>> ELSE <<>>)
    \o (IF At(r, 1, {" "}) /\ At(r, 2, {"1", "2", "3", "4", "5", "6", "7", "8", "9"}) THEN <<2>> ELSE <<>>)

IsLeap(y) == (y % 4 = 0 /\ y % 100 # 0) \/ y % 400 = 0

DaysInMonth(y, m) ==
    IF m = 2 THEN (IF IsLeap(y) THEN 29 ELSE 28)
    ELSE IF m \in {4, 6, 9, 11} THEN 30 ELSE 31

\* datetime.strptime(s, "%Y%m%d"): the regex (?P<Y>\d\d\d\d)(?P<m>..)(?P<d>..) is
\* matched at the start of s, backtracking over the month alternatives until a day
\* alternative matches; text left after the match, a year 0 or a day past the end
\* of the month is a ValueError.
StrpTime(s) ==
    IF Len(s) < 4 \/ ~AllDigits(SubSeq(s, 1, 4)) THEN NoValue
    ELSE
        LET r     == SubSeq(s, 5, Len(s))
            malts == MonthAlts(r)
            good  == {i \in 1..Len(malts) : DayAlts(SubSeq(r, malts[i] + 1, Len(r))) # <<>>}
        IN  IF good = {} THEN NoValue
            ELSE
                LET i    == CHOOSE j \in good : \A k \in good : j <= k
                    ml   == malts[i]
                    rest == SubSeq(r, ml + 1, Len(r))
                    dl   == DayAlts(rest)[1]
                    y    == DigitsVal(SubSeq(s, 1, 4))
                    m    == DigitsVal(SubSeq(r, 1, ml))
                    d    == DigitsVal(LStrip(SubSeq(rest, 1, dl)))
                IN  IF 4 + ml + dl # Len(s) \/ y < 1 \/ d > DaysInMonth(y, m) THEN NoValue
                    ELSE [ok |-> TRUE, y |-> y, m |-> m, d |-> d]

\* strftime("%Y-%m-%d"); "%Y" is the year's decimal digits (glibc does not pad it)
StrfTime(t) == IntToStr(t.y) \o <<"-">> \o TwoDigits(t.m) \o <<"-">> \o TwoDigits(t.d)

\* datetime.datetime.strptime(date_str, "%Y%m%d").strftime("%Y-%m-%d")
ConvertDate(s) ==
    LET t == StrpTime(s)
    IN  IF t.ok THEN [ok |-> TRUE, val |-> StrfTime(t)] ELSE NoValue

(***************************************************************************)
(* dict, zip, enumerate                                                    *)
(***************************************************************************)

\* A dict is a function from its keys; {} is the function on no key.
EmptyDict == [k \in {} |-> 0]

\* d[k] = v
DictSet(d, k, v) == [x \in DOMAIN d \cup {k} |-> IF x = k THEN v ELSE d[x]]

\* d.get(k, 0): a miss yields an identifier instead of None
DictGetOrZero(d, k) == [ok |-> TRUE, val |-> IF k \in DOMAIN d THEN d[k] ELSE 0]

\* d.get(k): NoValue stands for None
DictGet(d, k) == IF k \in DOMAIN d THEN [ok |-> TRUE, val |-> d[k]] ELSE NoValue

\* {key: val for ... in rows}: pairs are taken in order, a later pair overwrites
RECURSIVE DictOf(_)
DictOf(pairs) ==
    IF pairs = <<>> THEN EmptyDict
    ELSE LET last == pairs[Len(pairs)]
         IN  DictSet(DictOf(SubSeq(pairs, 1, Len(pairs) - 1)), last.key, last.val)

RECURSIVE SetToSeq(_)
SetToSeq(S) ==
    IF S = {} THEN <<>>
    ELSE LET x == CHOOSE y \in S : TRUE IN <<x>> \o SetToSeq(S \ {x})

\* d.items() as sort items keyed by the dict key
DictItems(d) ==
    LET ks == SetToSeq(DOMAIN d)
    IN  [i \in 1..Len(ks) |-> [key |-> <<ks[i]>>, val |-> d[ks[i]]]]

Min(a, b) == IF a <= b THEN a ELSE b

\* the number of tuples zip(a, b, c) yields: it stops at the shortest list
ZipLen(a, b, c) == Min(Len(a), Min(Len(b), Len(c)))

\* the first identifier enumerate() hands out: idx + 1 from 0, or start = 1
FirstId == 1

(***************************************************************************)
(* The file                                                                *)
(***************************************************************************)

\* header = f.readline(); for line in f: the lines after the first
DataLines(f) == IF f = <<>> THEN <<>> ELSE Tail(f)

\* line.strip().split("\t"); <<>> for a line that is empty after strip (skipped)
Cols(line) ==
    LET l == Strip(line)
    IN  IF l = <<>> THEN <<>> ELSE Split(l, "\t")

\* cols[i] without the strip()
ColRaw(cols, i) == cols[i + 1]

\* cols[i].strip(), with Python's 0-based column index
Col(cols, i) == Strip(cols[i + 1])

(***************************************************************************)
(* Stage 1: Region                                                         *)
(***************************************************************************)

RECURSIVE CollectRegions(_, _)
CollectRegions(lines, regions) ==
    IF lines = <<>> THEN regions
    ELSE
        LET cols == Cols(Head(lines))
            take == Len(cols) > 4 /\ Col(cols, 4) # <<>>
        IN  CollectRegions(Tail(lines), IF take THEN regions \cup {Col(cols, 4)} ELSE regions)

\* region_rows
Step1Rows(f) ==
    LET regions == CollectRegions(DataLines(f), {})
        names   == SetToSeq(regions)
        sorted  == SortedItems([i \in 1..Len(names) |-> [key |-> <<names[i]>>, val |-> names[i]]])
    IN  [i \in 1..Len(sorted) |-> [id |-> i - 1 + FirstId, name |-> sorted[i].val]]

\* step2_get_region_dict, on the rows as fetchall returned them
Step2Dict(rows) == DictOf([i \in 1..Len(rows) |-> [key |-> rows[i].name, val |-> rows[i].id]])

(***************************************************************************)
(* Stage 2: Country                                                        *)
(***************************************************************************)

RECURSIVE CollectCountries(_, _, _)
CollectCountries(lines, region_to_regionid, countries) ==
    IF lines = <<>> THEN countries
    ELSE
        LET cols == Cols(Head(lines))
            rest == Tail(lines)
        IN  IF Len(cols) < 5 THEN CollectCountries(rest, region_to_regionid, countries)
            ELSE
                LET country   == Col(cols, 3)
                    region    == Col(cols, 4)
                    region_id == DictGet(region_to_regionid, region)
                IN  IF country = <<>> \/ region = <<>> \/ ~region_id.ok
                    THEN CollectCountries(rest, region_to_regionid, countries)
                    ELSE CollectCountries(rest, region_to_regionid,
                                          DictSet(countries, country, region_id.val))

\* country_rows
Step3Rows(f, region_to_regionid) ==
    LET countries == CollectCountries(DataLines(f), region_to_regionid, EmptyDict)
        sorted    == SortedItems(DictItems(countries))
    IN  [i \in 1..Len(sorted) |->
            [id |-> i - 1 + FirstId, name |-> sorted[i].key[1], region_id |-> sorted[i].val]]

\* step4_get_country_dict
Step4Dict(rows) == DictOf([i \in 1..Len(rows) |-> [key |-> rows[i].name, val |-> rows[i].id]])

(***************************************************************************)
(* Stage 3: Customer                                                       *)
(***************************************************************************)

\* first_name, last_name of a full name: split at the first space, if any
SplitName(name) ==
    LET i == FindFrom(name, " ", 1)
    IN  IF i # 0 THEN [first |-> SubSeq(name, 1, i - 1), last |-> SubSeq(name, i + 1, Len(name))]
        ELSE [first |-> name, last |-> <<>>]

\* a dict keyed by the whole tuple instead of a list: a repeated tuple replaces the
\* earlier one
RECURSIVE AppendCustomerDedup(_, _)
AppendCustomerDedup(rows, row) ==
    IF rows = <<>> THEN <<row>>
    ELSE IF Head(rows) = row THEN AppendCustomerDedup(Tail(rows), row)
    ELSE <<Head(rows)>> \o AppendCustomerDedup(Tail(rows), row)

\* customer_rows_no_id.append(...): every row is kept
AppendCustomer(rows, row) == Append(rows, row)

RECURSIVE CollectCustomers(_, _, _)
CollectCustomers(lines, country_to_countryid, rows) ==
    IF lines = <<>> THEN rows
    ELSE
        LET cols == Cols(Head(lines))
            rest == Tail(lines)
        IN  IF Len(cols) < 4 THEN CollectCustomers(rest, country_to_countryid, rows)
            ELSE
                LET nm         == SplitName(Col(cols, 0))
                    country_id == DictGet(country_to_countryid, Col(cols, 3))
                IN  IF ~country_id.ok THEN CollectCustomers(rest, country_to_countryid, rows)
                    ELSE CollectCustomers(rest, country_to_countryid,
                            AppendCustomer(rows,
                                [first |-> nm.first, last |-> nm.last, address |-> Col(cols, 1),
                                 city |-> Col(cols, 2), country_id |-> country_id.val]))

\* customers
Step5Rows(f, country_to_countryid) ==
    LET rows   == CollectCustomers(DataLines(f), country_to_countryid, <<>>)
        sorted == SortedItems([i \in 1..Len(rows) |->
                                  [key |-> <<rows[i].first, rows[i].last>>, val |-> rows[i]]])
    IN  [i \in 1..Len(sorted) |->
            [id |-> i - 1 + FirstId, first |-> sorted[i].val.first, last |-> sorted[i].val.last,
             address |-> sorted[i].val.address, city |-> sorted[i].val.city,
             country_id |-> sorted[i].val.country_id]]

\* step6_get_customer_dict: the key is f"{first_name} {last_name}"
Step6Dict(rows) ==
    DictOf([i \in 1..Len(rows) |->
               [key |-> rows[i].first \o <<" ">> \o rows[i].last, val |-> rows[i].id]])

(***************************************************************************)
(* Stage 4: ProductCategory                                                *)
(***************************************************************************)

\* d[k] = v whether or not k is there: the last write wins
SetAlways(d, k, v) == DictSet(d, k, v)

\* if k not in d: d[k] = v
SetDefault(d, k, v) == IF k \in DOMAIN d THEN d ELSE DictSet(d, k, v)

\* for cat, desc in zip(categories, descriptions), from the i-th pair on
RECURSIVE AddCategories(_, _, _, _)
AddCategories(categories, descriptions, i, dict) ==
    IF i > Min(Len(categories), Len(descriptions)) THEN dict
    ELSE IF categories[i] = <<>> THEN AddCategories(categories, descriptions, i + 1, dict)
    ELSE AddCategories(categories, descriptions, i + 1,
                       SetDefault(dict, categories[i], descriptions[i]))

RECURSIVE CollectCategories(_, _)
CollectCategories(lines, dict) ==
    IF lines = <<>> THEN dict
    ELSE
        LET cols == Cols(Head(lines))
            rest == Tail(lines)
        IN  IF Len(cols) <= 7 THEN CollectCategories(rest, dict)
            ELSE IF Col(cols, 6) = <<>> \/ Col(cols, 7) = <<>> THEN CollectCategories(rest, dict)
            ELSE CollectCategories(rest,
                    AddCategories(SplitList(Col(cols, 6)), SplitList(Col(cols, 7)), 1, dict))

\* productcategory_rows
Step7Rows(f) ==
    LET category_to_description == CollectCategories(DataLines(f), EmptyDict)
        sorted == SortedItems(DictItems(category_to_description))
    IN  [i \in 1..Len(sorted) |->
            [id |-> i - 1 + FirstId, name |-> sorted[i].key[1],
             description |-> category_to_description[sorted[i].key[1]]]]

\* step8_get_category_dict
Step8Dict(rows) == DictOf([i \in 1..Len(rows) |-> [key |-> rows[i].name, val |-> rows[i].id]])

(***************************************************************************)
(* Stage 5: Product                                                        *)
(***************************************************************************)

\* for name, category, price_str in zip(names, categories, prices), from the i-th on
RECURSIVE AddProducts(_, _, _, _, _, _)
AddProducts(names, categories, prices, i, category_to_id, products) ==
    IF i > ZipLen(names, categories, prices) THEN products
    ELSE
        LET unit_price  == ParseFloat(prices[i])
            category_id == DictGet(category_to_id, categories[i])
        IN  IF names[i] = <<>> \/ ~unit_price.ok \/ ~category_id.ok
            THEN AddProducts(names, categories, prices, i + 1, category_to_id, products)
            ELSE AddProducts(names, categories, prices, i + 1, category_to_id,
                    SetDefault(products, names[i],
                               [unit_price |-> unit_price.val, category_id |-> category_id.val]))

RECURSIVE CollectProducts(_, _, _)
CollectProducts(lines, category_to_id, products) ==
    IF lines = <<>> THEN products
    ELSE
        LET cols == Cols(Head(lines))
            rest == Tail(lines)
        IN  IF Len(cols) <= 8 THEN CollectProducts(rest, category_to_id, products)
            ELSE IF Col(cols, 5) = <<>> \/ Col(cols, 6) = <<>> \/ Col(cols, 8) = <<>>
            THEN CollectProducts(rest, category_to_id, products)
            ELSE CollectProducts(rest, category_to_id,
                    AddProducts(SplitList(Col(cols, 5)), SplitList(Col(cols, 6)),
                                SplitList(Col(cols, 8)), 1, category_to_id, products))

\* product_rows
Step9Rows(f, category_to_id) ==
    LET products == CollectProducts(DataLines(f), category_to_id, EmptyDict)
        sorted   == SortedItems(DictItems(products))
    IN  [i \in 1..Len(sorted) |->
            [id |-> i - 1 + FirstId, name |-> sorted[i].key[1],
             unit_price |-> sorted[i].val.unit_price, category_id |-> sorted[i].val.category_id]]

\* step10_get_product_dict
Step10Dict(rows) == DictOf([i \in 1..Len(rows) |-> [key |-> rows[i].name, val |-> rows[i].id]])

(***************************************************************************)
(* Stage 6: OrderDetail                                                    *)
(***************************************************************************)

\* order_id = 1
FirstOrderId == 1

\* for prod_name, qty_str, date_str in zip(...), from the i-th on; acc holds
\* order_rows and order_id
RECURSIVE AddOrders(_, _, _, _, _, _, _)
AddOrders(product_names, quantities, orderdates, i, customer_id, product_to_id, acc) ==
    IF i > ZipLen(product_names, quantities, orderdates) THEN acc
    ELSE
        LET product_id == DictGet(product_to_id, product_names[i])
            quantity   == ParseInt(quantities[i])
            order_date == ConvertDate(orderdates[i])
        IN  IF product_names[i] = <<>> \/ ~product_id.ok \/ ~quantity.ok \/ ~order_date.ok
            THEN AddOrders(product_names, quantities, orderdates, i + 1, customer_id,
                           product_to_id, acc)
            ELSE AddOrders(product_names, quantities, orderdates, i + 1, customer_id,
                           product_to_id,
                           [order_rows |-> Append(acc.order_rows,
                                [id |-> acc.order_id, customer_id |-> customer_id,
                                 product_id |-> product_id.val, order_date |-> order_date.val,
                                 quantity |-> quantity.val]),
                            order_id |-> acc.order_id + 1])

RECURSIVE CollectOrders(_, _, _, _)
CollectOrders(lines, customer_to_id, product_to_id, acc) ==
    IF lines = <<>> THEN acc
    ELSE
        LET cols == Cols(Head(lines))
            rest == Tail(lines)
        IN  IF Len(cols) <= 10 THEN CollectOrders(rest, customer_to_id, product_to_id, acc)
            ELSE
                LET name        == Col(cols, 0)
                    customer_id == DictGet(customer_to_id, name)
                IN  IF name = <<>> \/ Col(cols, 5) = <<>> \/ Col(cols, 9) = <<>>
                       \/ Col(cols, 10) = <<>> \/ ~customer_id.ok
                    THEN CollectOrders(rest, customer_to_id, product_to_id, acc)
                    ELSE CollectOrders(rest, customer_to_id, product_to_id,
                            AddOrders(SplitList(Col(cols, 5)), SplitList(Col(cols, 9)),
                                      SplitList(Col(cols, 10)), 1, customer_id.val,
                                      product_to_id, acc))

\* order_rows
Step11Rows(f, customer_to_id, product_to_id) ==
    CollectOrders(DataLines(f), customer_to_id, product_to_id,
                  [order_rows |-> <<>>, order_id |-> FirstOrderId]).order_rows

(***************************************************************************)
(* Inputs: the lines a file is made of                                     *)
(***************************************************************************)

\* the most data lines a file holds
MaxLines == 3

\* "\t".join(fields): a line of the file, without its line end
RECURSIVE JoinTab(_)
JoinTab(fields) ==
    IF Len(fields) = 1 THEN fields[1]
    ELSE fields[1] \o <<"\t">> \o JoinTab(Tail(fields))

Header == JoinTab(<< <<"N">>, <<"A">> >>)

\* J D | x | s | US | As | Co;Ch | Sn;Be | Sa;Fi | 2.50;1 | 3;2 | 20230101;20230102
LineJane ==
    JoinTab(<< <<"J", " ", "D">>, <<"x">>, <<"s">>, <<"U", "S">>, <<"A", "s">>,
               <<"C", "o", ";", "C", "h">>, <<"S", "n", ";", "B", "e">>,
               <<"S", "a", ";", "F", "i">>, <<"2", ".", "5", "0", ";", "1">>,
               <<"3", ";", "2">>,
               <<"2", "0", "2", "3", "0", "1", "0", "1", ";",
                 "2", "0", "2", "3", "0", "1", "0", "2">> >>)

\* the same customer name at another address; Co and Be again with another price and
\* description; a description list one short of the categories and ending in an
\* empty one; a date past the month's end, a quantity that is no int, a 7-digit date
\* J D | y | s | UK | Af | Co;Ch;Co | Be;Sn;Be | Ho; | 9;x;9 | 1;x;2 | 20230230;20230101;2023115
LineTwin ==
    JoinTab(<< <<"J", " ", "D">>, <<"y">>, <<"s">>, <<"U", "K">>, <<"A", "f">>,
               <<"C", "o", ";", "C", "h", ";", "C", "o">>,
               <<"B", "e", ";", "S", "n", ";", "B", "e">>,
               <<"H", "o", ";">>, <<"9", ";", "x", ";", "9">>,
               <<"1", ";", "x", ";", "2">>,
               <<"2", "0", "2", "3", "0", "2", "3", "0", ";",
                 "2", "0", "2", "3", "0", "1", "0", "1", ";",
                 "2", "0", "2", "3", "1", "1", "5">> >>)

\* a name without a space, an empty address, fields padded with spaces, and US in
\* another region
\* C | | " s " | "US " | " Eu" | Ch | Sn | Sa | 1 | 2 | 20230103
LineMono ==
    JoinTab(<< <<"C">>, <<>>, <<" ", "s", " ">>, <<"U", "S", " ">>, <<" ", "E", "u">>,
               <<"C", "h">>, <<"S", "n">>, <<"S", "a">>, <<"1">>, <<"2">>,
               <<"2", "0", "2", "3", "0", "1", "0", "3">> >>)

\* four columns only: a customer whose country no line of its own declares
\* A B | x | s | US
LineShort == JoinTab(<< <<"A", " ", "B">>, <<"x">>, <<"s">>, <<"U", "S">> >>)

\* an empty first column: line.strip() removes the leading tab
\* "" | x | s | US | Eu
LineNoName == JoinTab(<< <<>>, <<"x">>, <<"s">>, <<"U", "S">>, <<"E", "u">> >>)

LineSet == {LineJane, LineTwin, LineMono, LineShort, LineNoName}

RECURSIVE SeqsUpTo(_, _)
SeqsUpTo(S, n) ==
    IF n = 0 THEN {<<>>}
    ELSE LET shorter == SeqsUpTo(S, n - 1)
         IN  shorter \cup {Append(q, x) : q \in {r \in shorter : Len(r) = n - 1}, x \in S}

\* data.csv: a header line, then up to MaxLines data lines
Files == {<<Header>> \o body : body \in SeqsUpTo(LineSet, MaxLines)}

(***************************************************************************)
(* The store and the run                                                   *)
(***************************************************************************)

VARIABLES
    file,       \* data.csv
    store0,     \* the committed store as the run found it
    conn,       \* "unset" before create_connection, then "none" (None) or "open"
    pc,         \* where the driver is
    stage,      \* the stage being run, 1..6; 0 outside the stages
    db,         \* the committed store: what any other session observes
    work,       \* the store as the connection's open transaction sees it
    aborted,    \* the open transaction has failed and was not rolled back
    dict1,      \* the name -> id mapping the stage read back
    dict2,      \* product_to_productid (stage 6)
    rows,       \* the rows the stage parsed and is about to insert
    attempted,  \* the stages entered so far
    failures    \* the <<stage, "ddl" | "insert">> errors raised so far

vars == <<file, store0, conn, pc, stage, db, work, aborted, dict1, dict2, rows,
          attempted, failures>>

\* the calls made under "if conn:", in order
NumStages == 6

Tables == {"Region", "Country", "Customer", "ProductCategory", "Product", "OrderDetail"}

\* the table stage k drops, creates and fills
StageTable(k) ==
    CASE k = 1 -> "Region" [] k = 2 -> "Country" [] k = 3 -> "Customer"
      [] k = 4 -> "ProductCategory" [] k = 5 -> "Product" [] k = 6 -> "OrderDetail"

\* whether stage k starts by reading a parent table back
ReadsBack(k) == k \in {2, 3, 5, 6}

NoTable == [exists |-> FALSE, rows |-> <<>>]

EmptyTable == [exists |-> TRUE, rows |-> <<>>]

\* a store no run has touched
FreshStore == [t \in Tables |-> NoTable]

\* DROP TABLE IF EXISTS t CASCADE; CREATE TABLE IF NOT EXISTS t: the table is there
\* and empty. CASCADE drops the foreign keys that point at t, not the rows that do.
DropCreate(store, t) == [store EXCEPT ![t] = EmptyTable]

\* executemany / execute_values of the stage's rows
InsertRows(store, t, rs) == [store EXCEPT ![t].rows = store[t].rows \o rs]

\* the store after a complete run over f in which every read-back returns the rows
\* in insertion order
CompleteRun(f) ==
    LET r1 == Step1Rows(f)
        r2 == Step3Rows(f, Step2Dict(r1))
        r3 == Step5Rows(f, Step4Dict(r2))
        r4 == Step7Rows(f)
        r5 == Step9Rows(f, Step8Dict(r4))
        r6 == Step11Rows(f, Step6Dict(r3), Step10Dict(r5))
    IN  [t \in Tables |->
            [exists |-> TRUE,
             rows |-> CASE t = "Region" -> r1 [] t = "Country" -> r2 [] t = "Customer" -> r3
                        [] t = "ProductCategory" -> r4 [] t = "Product" -> r5
                        [] t = "OrderDetail" -> r6]]

\* the store an earlier run over the one line LineJane left
StaleStore == CompleteRun(<<Header, LineJane>>)

\* cur.fetchall() of a SELECT without ORDER BY: the table's rows in any order
RECURSIVE FetchAll(_)
FetchAll(rs) ==
    IF rs = <<>> THEN {<<>>}
    ELSE UNION {{<<rs[i]>> \o rest :
                    rest \in FetchAll(SubSeq(rs, 1, i - 1) \o SubSeq(rs, i + 1, Len(rs)))} :
                i \in 1..Len(rs)}

Init ==
    /\ file \in Files
    /\ store0 \in {FreshStore, StaleStore}
    /\ conn = "unset"
    /\ pc = "start"
    /\ stage = 0
    /\ db = store0
    /\ work = store0
    /\ aborted = FALSE
    /\ dict1 = EmptyDict
    /\ dict2 = EmptyDict
    /\ rows = <<>>
    /\ attempted = {}
    /\ failures = {}

\* the stages called whether or not there is a connection
ConnIgnored(c) == TRUE

\* "if conn:"
ConnTruthy(c) == c # "none"

\* every stage wrapping its insert in try/except
InsertErrorCaughtAll(k) == TRUE

\* only step11 wraps its insert in try/except
InsertErrorCaught(k) == k = 6

\* create_table without its conn.commit(): the committed store stays as it was
CreateTableNoCommit(wk, committed) == committed

\* conn.commit() at the end of create_table: the committed store becomes wk
CreateTableCommit(wk, committed) == wk

\* conn = create_connection(): psycopg2.connect returns a connection or raises, and
\* the exception is caught and None returned
Connect ==
    /\ pc = "start"
    /\ \E ok \in BOOLEAN : conn' = IF ok THEN "open" ELSE "none"
    /\ pc' = "main"
    /\ UNCHANGED <<file, store0, stage, db, work, aborted, dict1, dict2, rows, attempted,
                   failures>>

\* the variables as stage k is entered
EnterStage(k) ==
    /\ stage' = k
    /\ attempted' = attempted \cup {k}
    /\ pc' = IF ReadsBack(k) THEN "read" ELSE "parse"
    /\ dict1' = EmptyDict
    /\ dict2' = EmptyDict
    /\ rows' = <<>>

\* "if conn:" taken: step1_create_region_table is called
MainConnected ==
    /\ pc = "main"
    /\ ConnTruthy(conn)
    /\ EnterStage(1)
    /\ UNCHANGED <<file, store0, conn, db, work, aborted, failures>>

\* "else: print("Failed to connect.")"
MainFailed ==
    /\ pc = "main"
    /\ ~ConnTruthy(conn)
    /\ pc' = "failed_to_connect"
    /\ UNCHANGED <<file, store0, conn, stage, db, work, aborted, dict1, dict2, rows,
                   attempted, failures>>

\* step2_get_region_dict, step4_get_country_dict, step8_get_category_dict
ReadParent ==
    /\ pc = "read"
    /\ stage \in {2, 3, 5}
    /\ LET t == CASE stage = 2 -> "Region" [] stage = 3 -> "Country"
                  [] stage = 5 -> "ProductCategory"
       IN  \E fetched \in FetchAll(work[t].rows) :
               dict1' = CASE stage = 2 -> Step2Dict(fetched) [] stage = 3 -> Step4Dict(fetched)
                          [] stage = 5 -> Step8Dict(fetched)
    /\ pc' = "parse"
    /\ UNCHANGED <<file, store0, conn, stage, db, work, aborted, dict2, rows, attempted,
                   failures>>

\* step6_get_customer_dict and step10_get_product_dict at the top of step11
ReadCustomerProduct ==
    /\ pc = "read"
    /\ stage = 6
    /\ \E fetched \in FetchAll(work["Customer"].rows) : dict1' = Step6Dict(fetched)
    /\ \E fetched \in FetchAll(work["Product"].rows) : dict2' = Step10Dict(fetched)
    /\ pc' = "parse"
    /\ UNCHANGED <<file, store0, conn, stage, db, work, aborted, rows, attempted, failures>>

\* the stage's pass over the file, up to the rows it will insert
Parse ==
    /\ pc = "parse"
    /\ rows' = CASE stage = 1 -> Step1Rows(file)
                 [] stage = 2 -> Step3Rows(file, dict1)
                 [] stage = 3 -> Step5Rows(file, dict1)
                 [] stage = 4 -> Step7Rows(file)
                 [] stage = 5 -> Step9Rows(file, dict1)
                 [] stage = 6 -> Step11Rows(file, dict1, dict2)
    /\ pc' = "create"
    /\ UNCHANGED <<file, store0, conn, stage, db, work, aborted, dict1, dict2, attempted,
                   failures>>

\* create_table: DROP, CREATE and commit all succeed
CreateTableOk ==
    /\ pc = "create"
    /\ work' = DropCreate(work, StageTable(stage))
    /\ db' = CreateTableCommit(work', db)
    /\ pc' = "insert"
    /\ UNCHANGED <<file, store0, conn, stage, aborted, dict1, dict2, rows, attempted,
                   failures>>

\* create_table: a statement raises; the exception is printed and nothing is rolled
\* back, so the transaction stays aborted and shows none of its changes
CreateTableFail ==
    /\ pc = "create"
    /\ aborted' = TRUE
    /\ failures' = failures \cup {<<stage, "ddl">>}
    /\ pc' = "insert"
    /\ UNCHANGED <<file, store0, conn, stage, db, work, dict1, dict2, rows, attempted>>

\* the bulk insert and its commit succeed; the driver calls the next stage, or
\* closes the connection after the last
InsertOk ==
    /\ pc = "insert"
    /\ ~aborted
    /\ work' = InsertRows(work, StageTable(stage), rows)
    /\ db' = work'
    /\ IF stage < NumStages
       THEN EnterStage(stage + 1)
       ELSE /\ pc' = "done"
            /\ UNCHANGED <<stage, attempted, dict1, dict2, rows>>
    /\ UNCHANGED <<file, store0, conn, aborted, failures>>

\* the bulk insert raises, of its own or because the transaction is aborted. Stage 6
\* prints the error and returns, and the driver closes the connection; in the other
\* stages the exception leaves the program. Either way nothing uncommitted is kept.
InsertFail ==
    /\ pc = "insert"
    /\ failures' = failures \cup {<<stage, "insert">>}
    /\ work' = db
    /\ pc' = IF InsertErrorCaught(stage) THEN "done" ELSE "crashed"
    /\ UNCHANGED <<file, store0, conn, stage, db, aborted, dict1, dict2, rows, attempted>>

Next ==
    \/ Connect
    \/ MainConnected
    \/ MainFailed
    \/ ReadParent
    \/ ReadCustomerProduct
    \/ Parse
    \/ CreateTableOk
    \/ CreateTableFail
    \/ InsertOk
    \/ InsertFail

Spec == Init /\ [][Next]_vars

(***************************************************************************)
(* Properties                                                              *)
(***************************************************************************)

\* the committed rows of table t
Rows(t) == db[t].rows

Ids(rs) == {rs[i].id : i \in 1..Len(rs)}

\* stage k's insert has been committed in this run
Loaded(k) ==
    IF k < NumStages THEN stage > k
    ELSE pc = "done" /\ \A kind \in {"ddl", "insert"} : <<NumStages, kind>> \notin failures

\* the run went through all six stages and none raised
Complete == pc = "done" /\ failures = {}

\* the file with its data lines in the opposite order
ReverseData(f) ==
    LET d == DataLines(f)
    IN  <<Head(f)>> \o [i \in 1..Len(d) |-> d[Len(d) + 1 - i]]

RefIntegrity(store) ==
    /\ \A i \in 1..Len(store["Country"].rows) :
           store["Country"].rows[i].region_id \in Ids(store["Region"].rows)
    /\ \A i \in 1..Len(store["Customer"].rows) :
           store["Customer"].rows[i].country_id \in Ids(store["Country"].rows)
    /\ \A i \in 1..Len(store["Product"].rows) :
           store["Product"].rows[i].category_id \in Ids(store["ProductCategory"].rows)
    /\ \A i \in 1..Len(store["OrderDetail"].rows) :
           /\ store["OrderDetail"].rows[i].customer_id \in Ids(store["Customer"].rows)
           /\ store["OrderDetail"].rows[i].product_id \in Ids(store["Product"].rows)

\* C1: after a run that completed all six stages, whatever the store held before and
\* whatever the file, every RegionID of Country is in Region, every CountryID of
\* Customer is in Country, every ProductCategoryID of Product is in ProductCategory
\* and every CustomerID and ProductID of OrderDetail is in Customer and Product.
C1_ReferentialIntegrity == Complete => RefIntegrity(db)

\* a complete run over a stale store that loaded orders and dropped a customer
\* whose country did not resolve
C1_Witness ==
    /\ Complete
    /\ store0 = StaleStore
    /\ Rows("OrderDetail") # <<>>
    /\ \E i \in 1..Len(DataLines(file)) :
           LET cols == Cols(DataLines(file)[i])
           IN  /\ Len(cols) >= 4
               /\ \A j \in 1..Len(Rows("Country")) : Rows("Country")[j].name # Col(cols, 3)

\* rows numbered 1..N in row order, names strictly ascending by code point
NumberedByName(rs) ==
    /\ \A i \in 1..Len(rs) : rs[i].id = i
    /\ \A i, j \in 1..Len(rs) : i < j => StrLess(rs[i].name, rs[j].name)

NameIds(rs) == {<<rs[i].name, rs[i].id>> : i \in 1..Len(rs)}

\* the region names of the file: column 4, trimmed, of every line with more than
\* four columns, when not empty
RegionNames ==
    {Col(Cols(DataLines(file)[i]), 4) :
        i \in {j \in 1..Len(DataLines(file)) :
                  /\ Len(Cols(DataLines(file)[j])) > 4
                  /\ Col(Cols(DataLines(file)[j]), 4) # <<>>}}

\* C2: the Region, Country, ProductCategory and Product stages give the N distinct
\* names they collected the identifiers 1..N in ascending lexicographic order of the
\* name, and the identifier of a name does not depend on the order of the lines.
C2_SortThenNumber ==
    /\ Loaded(1) =>
           /\ NumberedByName(Rows("Region"))
           /\ {Rows("Region")[i].name : i \in 1..Len(Rows("Region"))} = RegionNames
           /\ NameIds(Rows("Region")) = NameIds(Step1Rows(ReverseData(file)))
    /\ Loaded(2) =>
           /\ NumberedByName(Rows("Country"))
           /\ NameIds(Rows("Country"))
                  = NameIds(Step3Rows(ReverseData(file), Step2Dict(Rows("Region"))))
    /\ Loaded(4) =>
           /\ NumberedByName(Rows("ProductCategory"))
           /\ NameIds(Rows("ProductCategory")) = NameIds(Step7Rows(ReverseData(file)))
    /\ Loaded(5) =>
           /\ NumberedByName(Rows("Product"))
           /\ NameIds(Rows("Product"))
                  = NameIds(Step9Rows(ReverseData(file), Step8Dict(Rows("ProductCategory"))))

\* all four tables loaded from a file whose regions, countries, categories and
\* products first appear in descending order
C2_Witness ==
    /\ Loaded(5)
    /\ Len(file) >= 3
    /\ SubSeq(file, 2, 3) = <<LineJane, LineTwin>>
    /\ Len(Rows("Region")) = 2
    /\ Len(Rows("Country")) = 2
    /\ Len(Rows("ProductCategory")) = 2
    /\ Len(Rows("Product")) = 2

\* the data lines of the file, and the columns of the i-th
Data == DataLines(file)

DataCols(i) == Cols(Data[i])

\* the identifier of the row named n in rs
IdOf(rs, n) == (CHOOSE i \in 1..Len(rs) : rs[i].name = n)

Named(rs, n) == \E i \in 1..Len(rs) : rs[i].name = n

\* a Customer row without its identifier
CustomerKey(r) ==
    [first |-> r.first, last |-> r.last, address |-> r.address, city |-> r.city,
     country_id |-> r.country_id]

\* the data lines the Customer stage takes a row from: at least four columns and a
\* country that is in Country
CustomerLines ==
    {i \in 1..Len(Data) : Len(DataCols(i)) >= 4 /\ Named(Rows("Country"), Col(DataCols(i), 3))}

\* the row, without identifier, that line i stands for
CustomerOfLine(i) ==
    [first |-> SplitName(Col(DataCols(i), 0)).first, last |-> SplitName(Col(DataCols(i), 0)).last,
     address |-> Col(DataCols(i), 1), city |-> Col(DataCols(i), 2),
     country_id |-> Rows("Country")[IdOf(Rows("Country"), Col(DataCols(i), 3))].id]

\* C3 as claimed: the Customer table holds at most one row per (name, address, city,
\* country) key.
C3_OneRowPerKey ==
    Loaded(3) =>
        \A i, j \in 1..Len(Rows("Customer")) :
            i # j => CustomerKey(Rows("Customer")[i]) # CustomerKey(Rows("Customer")[j])

\* C3 as amended: the Customer stage does not deduplicate. Every data line with at
\* least four columns whose country resolves yields one row, repeated keys included,
\* and CustomerIDs are 1..N over all those rows sorted by (first name, last name).
C3_EveryLineOneRow ==
    Loaded(3) =>
        LET rs == Rows("Customer")
        IN  /\ Len(rs) = Cardinality(CustomerLines)
            /\ \A i \in CustomerLines :
                   Cardinality({k \in 1..Len(rs) : CustomerKey(rs[k]) = CustomerOfLine(i)})
                       = Cardinality({j \in CustomerLines : CustomerOfLine(j) = CustomerOfLine(i)})
            /\ \A k \in 1..Len(rs) : rs[k].id = k
            /\ \A k, l \in 1..Len(rs) :
                   k < l => ~KeyLess(<<rs[l].first, rs[l].last>>, <<rs[k].first, rs[k].last>>)

\* a loaded Customer table with the same key in two rows, out of file order
C3_Witness ==
    /\ Loaded(3)
    /\ \E i, j \in 1..Len(Rows("Customer")) :
           i # j /\ CustomerKey(Rows("Customer")[i]) = CustomerKey(Rows("Customer")[j])
    /\ \E i, j \in CustomerLines :
           i < j /\ KeyLess(<<CustomerOfLine(j).first, CustomerOfLine(j).last>>,
                            <<CustomerOfLine(i).first, CustomerOfLine(i).last>>)

\* <<i, j>> comes before <<k, l>> in file order: an earlier line, or an earlier
\* sub-record of the same line
Before(o1, o2) == o1[1] < o2[1] \/ (o1[1] = o2[1] /\ o1[2] < o2[2])

CatList(i) == SplitList(Col(DataCols(i), 6))

DescList(i) == SplitList(Col(DataCols(i), 7))

\* the <<line, position>> of every category sub-record the ProductCategory stage
\* accepts
CategoryOccurrences ==
    UNION {{<<i, j>> : j \in {k \in 1..Min(Len(CatList(i)), Len(DescList(i))) :
                                 CatList(i)[k] # <<>>}} :
            i \in {k \in 1..Len(Data) :
                      /\ Len(DataCols(k)) > 7
                      /\ Col(DataCols(k), 6) # <<>>
                      /\ Col(DataCols(k), 7) # <<>>}}

ProdList(i) == SplitList(Col(DataCols(i), 5))

PriceList(i) == SplitList(Col(DataCols(i), 8))

\* the <<line, position>> of every product sub-record the Product stage accepts:
\* a name, a price that float() takes and a category that is in ProductCategory
ProductOccurrences ==
    UNION {{<<i, j>> : j \in {k \in 1..ZipLen(ProdList(i), CatList(i), PriceList(i)) :
                                 /\ ProdList(i)[k] # <<>>
                                 /\ ParseFloat(PriceList(i)[k]).ok
                                 /\ Named(Rows("ProductCategory"), CatList(i)[k])}} :
            i \in {k \in 1..Len(Data) :
                      /\ Len(DataCols(k)) > 8
                      /\ Col(DataCols(k), 5) # <<>>
                      /\ Col(DataCols(k), 6) # <<>>
                      /\ Col(DataCols(k), 8) # <<>>}}

\* C4: the one ProductCategory row of a name carries the description, and the one
\* Product row of a name the price and category id, of the first sub-record in file
\* order that the stage accepted for that name.
C4_FirstWriteWins ==
    /\ Loaded(4) =>
           LET rs == Rows("ProductCategory")
           IN  /\ \A k, l \in 1..Len(rs) : k # l => rs[k].name # rs[l].name
               /\ \A o \in CategoryOccurrences : Named(rs, CatList(o[1])[o[2]])
               /\ \A k \in 1..Len(rs) :
                      \E o \in CategoryOccurrences :
                          /\ CatList(o[1])[o[2]] = rs[k].name
                          /\ DescList(o[1])[o[2]] = rs[k].description
                          /\ \A p \in CategoryOccurrences :
                                 CatList(p[1])[p[2]] = rs[k].name => ~Before(p, o)
    /\ Loaded(5) =>
           LET rs == Rows("Product")
               cs == Rows("ProductCategory")
           IN  /\ \A k, l \in 1..Len(rs) : k # l => rs[k].name # rs[l].name
               /\ \A o \in ProductOccurrences : Named(rs, ProdList(o[1])[o[2]])
               /\ \A k \in 1..Len(rs) :
                      \E o \in ProductOccurrences :
                          /\ ProdList(o[1])[o[2]] = rs[k].name
                          /\ ParseFloat(PriceList(o[1])[o[2]]).val = rs[k].unit_price
                          /\ cs[IdOf(cs, CatList(o[1])[o[2]])].id = rs[k].category_id
                          /\ \A p \in ProductOccurrences :
                                 ProdList(p[1])[p[2]] = rs[k].name => ~Before(p, o)

\* both tables loaded from a file that gives one category two descriptions and one
\* product two prices and two categories
C4_Witness ==
    /\ Loaded(5)
    /\ \E o, p \in CategoryOccurrences :
           /\ CatList(o[1])[o[2]] = CatList(p[1])[p[2]]
           /\ DescList(o[1])[o[2]] # DescList(p[1])[p[2]]
    /\ \E o, p \in ProductOccurrences :
           /\ ProdList(o[1])[o[2]] = ProdList(p[1])[p[2]]
           /\ ParseFloat(PriceList(o[1])[o[2]]).val # ParseFloat(PriceList(p[1])[p[2]]).val
           /\ CatList(o[1])[o[2]] # CatList(p[1])[p[2]]

\* C5: for a fixed file, every complete run against a fresh store yields the same six
\* tables, whatever order the read-backs return the rows in: the tables of the run
\* whose read-backs return the rows in insertion order.
C5_Deterministic == (Complete /\ store0 = FreshStore) => db = CompleteRun(file)

CreatedNotLoaded ==
    /\ stage \in 1..NumStages
    /\ <<stage, "ddl">> \notin failures
    /\ \/ pc = "insert"
       \/ pc \in {"crashed", "done"} /\ <<stage, "insert">> \in failures

\* C7 as claimed: no committed store state shows a stage's table dropped and
\* recreated without the rows of this run.
C7_CommittedTogether ==
    ~(CreatedNotLoaded /\ rows # <<>> /\ db[StageTable(stage)] = EmptyTable)

\* C7 as amended: create_table commits the drop and create on their own, before the
\* bulk insert, and the bulk insert is committed in a second transaction. Between
\* the two commits, and for good when the insert fails, the committed store shows the
\* table recreated and empty; when the DDL fails the committed table is untouched.
C7_CreateCommitsAlone ==
    /\ CreatedNotLoaded => db[StageTable(stage)] = EmptyTable
    /\ (stage \in 1..NumStages /\ <<stage, "ddl">> \in failures) =>
           db[StageTable(stage)] = store0[StageTable(stage)]
    /\ \A k \in 1..NumStages : Loaded(k) => db[StageTable(k)].exists

\* a stale Customer table replaced by an empty one in the committed store while the
\* new rows are still to be inserted
C7_Witness ==
    /\ CreatedNotLoaded
    /\ pc = "insert"
    /\ stage = 3
    /\ rows # <<>>
    /\ store0 = StaleStore
    /\ db["Customer"] = EmptyTable

\* C8: when the connection fails the run ends with no stage entered and no table
\* dropped, created or written.
C8_NoStageWithoutConnection ==
    /\ conn = "none" =>
           /\ pc \in {"main", "failed_to_connect"}
           /\ stage = 0
           /\ attempted = {}
           /\ db = store0
           /\ work = store0
    /\ pc = "failed_to_connect" => conn = "none"

\* the run over a stale store ended at "Failed to connect."
C8_Witness == pc = "failed_to_connect" /\ store0 = StaleStore /\ Len(file) > 1

\* no whitespace at either end
Trimmed(x) == x = <<>> \/ (~IsSpace(x[1]) /\ ~IsSpace(x[Len(x)]))

QtyList(i) == SplitList(Col(DataCols(i), 9))

DateList(i) == SplitList(Col(DataCols(i), 10))

\* s is eight digits that name a calendar day as YYYYMMDD
ValidYYYYMMDD(s) ==
    /\ Len(s) = 8
    /\ AllDigits(s)
    /\ DigitsVal(SubSeq(s, 1, 4)) >= 1
    /\ DigitsVal(SubSeq(s, 5, 6)) \in 1..12
    /\ DigitsVal(SubSeq(s, 7, 8)) \in
           1..DaysInMonth(DigitsVal(SubSeq(s, 1, 4)), DigitsVal(SubSeq(s, 5, 6)))

\* YYYYMMDD as YYYY-MM-DD
Dashed(s) == SubSeq(s, 1, 4) \o <<"-">> \o SubSeq(s, 5, 6) \o <<"-">> \o SubSeq(s, 7, 8)

\* the customer names the OrderDetail stage resolves
CustomerNames ==
    {Rows("Customer")[k].first \o <<" ">> \o Rows("Customer")[k].last :
        k \in 1..Len(Rows("Customer"))}

\* the <<line, position>> of every order sub-record of a line whose customer
\* resolves, with a product that is in Product, a quantity that is an integer and a
\* date that is a valid YYYYMMDD
ValidOrders ==
    UNION {{<<i, j>> : j \in {k \in 1..ZipLen(ProdList(i), QtyList(i), DateList(i)) :
                                 /\ Named(Rows("Product"), ProdList(i)[k])
                                 /\ ParseInt(QtyList(i)[k]).ok
                                 /\ ValidYYYYMMDD(DateList(i)[k])}} :
            i \in {k \in 1..Len(Data) :
                      /\ Len(DataCols(k)) > 10
                      /\ Col(DataCols(k), 0) \in CustomerNames
                      /\ Col(DataCols(k), 5) # <<>>
                      /\ Col(DataCols(k), 9) # <<>>
                      /\ Col(DataCols(k), 10) # <<>>}}

\* C10: the OrderDetail rows are exactly the sub-records with a valid YYYYMMDD date
\* and an integer quantity (of resolved customers and products), a dropped
\* sub-record taking nothing else of its line with it: the k-th row, with OrderID k,
\* is the k-th such sub-record in file order and its date the YYYY-MM-DD form of
\* the source date.
C10_OnlyValidDatesLoaded ==
    Loaded(6) =>
        LET rs == Rows("OrderDetail")
        IN  /\ Len(rs) = Cardinality(ValidOrders)
            /\ \A k \in 1..Len(rs) :
                   /\ rs[k].id = k
                   /\ \E o \in ValidOrders :
                          /\ Cardinality({p \in ValidOrders : Before(p, o)}) = k - 1
                          /\ rs[k].order_date = Dashed(DateList(o[1])[o[2]])
                          /\ rs[k].quantity = ParseInt(QtyList(o[1])[o[2]]).val
                          /\ rs[k].product_id
                                 = Rows("Product")[IdOf(Rows("Product"), ProdList(o[1])[o[2]])].id

\* the order sub-records the stage accepts, the date judged by strptime itself
OrdersAsParsed ==
    UNION {{<<i, j>> : j \in {k \in 1..ZipLen(ProdList(i), QtyList(i), DateList(i)) :
                                 /\ Named(Rows("Product"), ProdList(i)[k])
                                 /\ ParseInt(QtyList(i)[k]).ok
                                 /\ ConvertDate(DateList(i)[k]).ok}} :
            i \in {k \in 1..Len(Data) :
                      /\ Len(DataCols(k)) > 10
                      /\ Col(DataCols(k), 0) \in CustomerNames
                      /\ Col(DataCols(k), 5) # <<>>
                      /\ Col(DataCols(k), 9) # <<>>
                      /\ Col(DataCols(k), 10) # <<>>}}

\* What stage 6 does load: one row per sub-record that strptime and int() accept,
\* numbered 1..M in file order; a date that is a valid YYYYMMDD is stored dashed.
OrderDetailAsParsed ==
    Loaded(6) =>
        LET rs == Rows("OrderDetail")
        IN  /\ Len(rs) = Cardinality(OrdersAsParsed)
            /\ \A k \in 1..Len(rs) :
                   /\ rs[k].id = k
                   /\ \E o \in OrdersAsParsed :
                          /\ Cardinality({p \in OrdersAsParsed : Before(p, o)}) = k - 1
                          /\ rs[k].quantity = ParseInt(QtyList(o[1])[o[2]]).val
                          /\ ValidYYYYMMDD(DateList(o[1])[o[2]]) =>
                                 rs[k].order_date = Dashed(DateList(o[1])[o[2]])

\* the <<line, position>> of every order sub-record of a line with at least eleven
\* columns whose customer the Customer stage loaded, with a product that is in
\* Product and a quantity and a date that int() and strptime accept
OrdersOfLoadedCustomers ==
    UNION {{<<i, j>> : j \in {k \in 1..ZipLen(ProdList(i), QtyList(i), DateList(i)) :
                                 /\ Named(Rows("Product"), ProdList(i)[k])
                                 /\ ParseInt(QtyList(i)[k]).ok
                                 /\ ConvertDate(DateList(i)[k]).ok}} :
            i \in {k \in CustomerLines : Len(DataCols(k)) > 10}}

\* the OrderDetail row of sub-record o, the rows being those of OrdersAsParsed in
\* file order
RowOfOrder(o) == Cardinality({p \in OrdersAsParsed : Before(p, o)}) + 1

\* the Customer row with identifier id carries the names of line i's customer
CustomerRowNamed(id, i) ==
    \E c \in 1..Len(Rows("Customer")) :
        /\ Rows("Customer")[c].id = id
        /\ Rows("Customer")[c].first = SplitName(Col(DataCols(i), 0)).first
        /\ Rows("Customer")[c].last = SplitName(Col(DataCols(i), 0)).last

\* C11: every order sub-record of a line with at least eleven columns whose customer
\* is in Customer (a customer whose name has no space included), with a product in
\* Product and a quantity and a date that parse, yields exactly one OrderDetail row,
\* and the CustomerID of that row is that of a Customer row whose FirstName and
\* LastName are those of the line's customer name.
C11_OrdersOfEveryLoadedCustomer ==
    Loaded(6) =>
        LET rs == Rows("OrderDetail")
        IN  /\ Len(rs) = Cardinality(OrdersAsParsed)
            /\ \A o \in OrdersOfLoadedCustomers :
                   /\ o \in OrdersAsParsed
                   /\ RowOfOrder(o) <= Len(rs)
                   /\ rs[RowOfOrder(o)].quantity = ParseInt(QtyList(o[1])[o[2]]).val
                   /\ rs[RowOfOrder(o)].product_id
                          = Rows("Product")[IdOf(Rows("Product"), ProdList(o[1])[o[2]])].id
                   /\ CustomerRowNamed(rs[RowOfOrder(o)].customer_id, o[1])

\* What stage 6 does for the customer: every row's CustomerID is that of a Customer
\* row named as the row's line, and the orders of a loaded customer are loaded when
\* the name has a space in it; those of a name without a space never are.
OrderCustomerAsKeyed ==
    Loaded(6) =>
        LET rs == Rows("OrderDetail")
        IN  /\ \A o \in OrdersAsParsed :
                   /\ RowOfOrder(o) <= Len(rs)
                   /\ CustomerRowNamed(rs[RowOfOrder(o)].customer_id, o[1])
                   /\ FindFrom(Col(DataCols(o[1]), 0), " ", 1) # 0
            /\ \A o \in OrdersOfLoadedCustomers :
                   FindFrom(Col(DataCols(o[1]), 0), " ", 1) # 0 => o \in OrdersAsParsed

\* a customer whose name has no space is in Customer and has an order that parses,
\* and the OrderDetail stage has run
OrderOfSpacelessName ==
    /\ Loaded(6)
    /\ \E o \in OrdersOfLoadedCustomers : FindFrom(Col(DataCols(o[1]), 0), " ", 1) = 0

====
